---- MODULE Spec2Model ----
(***************************************************************************)
(* Model of src/main.py: the rate-limited web_search tool, the retry       *)
(* wrapper safe_run_sync and the orchestrator's tool registry.             *)
(*                                                                         *)
(* Time is counted in whole seconds.  time.time() is the variable now,     *)
(* which only the Tick action advances; time.sleep(d) returns once the     *)
(* clock has advanced by at least d.                                       *)
(***************************************************************************)
EXTENDS Integers, Sequences, FiniteSets, TLC

VARIABLES
    now,             \* the reading of time.time()
    last_call_time,  \* module-level global, line 48
    pc,              \* per flow: position inside web_search
    elapsed,         \* per flow: local variable elapsed, line 58
    slept,           \* per flow: argument of time.sleep in this call (0 = no sleep)
    wake,            \* per flow: clock reading at which time.sleep may return
    outcome,         \* per flow: what the provider call of this call did
    ret,             \* per flow: what web_search did last (value or raised)
    checked,         \* per flow: this call has evaluated the test of line 59
    mystamp,         \* per flow: what this call assigned to last_call_time (-1: nothing yet)
    nstamps,         \* history: number of assignments to last_call_time
    last_start,      \* history: clock reading at which the latest provider call was issued
    nstarts,         \* history: number of provider calls issued
    last_kind,       \* history: how the latest finished call's provider call ended
    ncalls,          \* web_search calls entered so far
    max_retries,     \* safe_run_sync: parameter
    base_delay,      \* safe_run_sync: parameter
    attempt,         \* safe_run_sync: local variable attempt, line 197
    rpc,             \* safe_run_sync: position
    run_outcome,     \* safe_run_sync: what the latest Runner.run_sync did
    result,          \* safe_run_sync: what it gave its caller (value or raised error)
    invoked,         \* the tools the orchestrator has invoked in the current run
    invocations,     \* history: number of Runner.run_sync calls
    ntransient,      \* history: number of those that failed with a transient error
    sleeps           \* history: the arguments of time.sleep, lines 204 and 210, in order

searchVars == <<now, last_call_time, pc, elapsed, slept, wake, checked, mystamp,
                outcome, ret, nstamps, last_start, nstarts, last_kind, ncalls>>

locals == <<elapsed, slept, wake, checked, mystamp>>

history == <<nstamps, last_start, nstarts, last_kind>>

retryVars == <<max_retries, base_delay, attempt, rpc, run_outcome, result, invoked,
               invocations, ntransient, sleeps>>

vars == <<searchVars, retryVars>>

----------------------------------------------------------------------------
(* Bounds of the model *)

StartTime == 10     \* clock reading when the process starts
Horizon == 16       \* the model follows the clock for this many seconds
MaxCalls == 3       \* web_search calls per behaviour
ThreadHorizon == 7  \* the same two bounds when several flows run at once
ThreadCalls == 2

(* Program constants *)

MinInterval == 6    \* "if elapsed < 6", "time.sleep(6 - elapsed)"

MaxTime == StartTime + Horizon

Flows == {"A", "B"}
MainFlow == "A"

----------------------------------------------------------------------------
(* The search provider: tavily_client.search(...) either raises or returns *)
(* a response dict.                                                        *)

Messages == {"boom", "429 Too Many Requests"}

NotADict == [isdict |-> FALSE, fields |-> <<>>]

Dict(d) == [isdict |-> TRUE, fields |-> d]

Entries ==
    { Dict([title |-> "T1", url |-> "U1", snippet |-> "S1"]),
      Dict([title |-> "T2", url |-> "U2", content |-> "C2"]),
      Dict([url |-> "U3", snippet |-> "", content |-> "C3"]),
      Dict([title |-> "T4"]),
      NotADict }

Responses ==
    { [haskey |-> FALSE, results |-> <<>>],
      [haskey |-> TRUE, results |-> <<>>] }
    \cup { [haskey |-> TRUE, results |-> <<e>>] : e \in Entries }
    \cup { [haskey |-> TRUE, results |-> <<e1, e2>>] :
             e1 \in Entries \ {NotADict}, e2 \in {Dict([title |-> "T4"]), NotADict} }

Raises(m) == [kind |-> "raise", msg |-> m, body |-> [haskey |-> FALSE, results |-> <<>>]]

Responds(b) == [kind |-> "response", msg |-> "", body |-> b]

ProviderOutcomes ==
    { Raises(m) : m \in Messages } \cup { Responds(b) : b \in Responses }

\* the outcomes followed when several flows run at once
ThreadOutcomes ==
    { Raises("boom"),
      Responds([haskey |-> TRUE, results |-> <<Dict([title |-> "T1", url |-> "U1", snippet |-> "S1"])>>]) }

NoOutcome == [kind |-> "none", msg |-> "", body |-> [haskey |-> FALSE, results |-> <<>>]]

----------------------------------------------------------------------------
(* Lines 64-81: the try block of web_search as a function of what the      *)
(* provider call did.                                                      *)

\* r.get(key, default) on a dict
Get(d, key, default) == IF key \in DOMAIN d THEN d[key] ELSE default

\* an "or" that keeps its first operand whatever it is
OrFirst(a, b) == a

\* Python's "a or b" on strings and None: r.get(key) without a default gives
\* None for a missing key, which "or" skips exactly as it skips "".
Or(a, b) == IF a # "" THEN a ELSE b

\* lines 73-76, one entry
FormatEntry(d) ==
    LET title == Get(d, "title", "No Title")
        url == Get(d, "url", "No URL")
        snippet == Or(Get(d, "snippet", ""), Or(Get(d, "content", ""), "No snippet available"))
    IN "- " \o title \o " (" \o url \o "): " \o snippet

\* "\n".join(formatted), line 78
RECURSIVE Join(_)
Join(lines) ==
    IF Len(lines) = 0 THEN ""
    ELSE IF Len(lines) = 1 THEN lines[1]
    ELSE lines[1] \o "\n" \o Join(Tail(lines))

\* r.get on an entry that is no dict raises AttributeError inside the try
AttributeErrorMsg == "'str' object has no attribute 'get'"

Returned(v) == [raised |-> FALSE, value |-> v]
Raised(m) == [raised |-> TRUE, value |-> m]

\* a handler that lets the exception through
ExceptClauseReraises(m) == Raised(m)

\* lines 80-81: except Exception as e: return f"WebSearchTool failed: {str(e)}"
ExceptClause(m) == Returned("WebSearchTool failed: " \o m)

\* a test that looks at the list without asking whether the key is there
NoResultsKeyAssumed(body) == body.haskey /\ Len(body.results) = 0

\* line 68: if "results" not in results or not results["results"]
NoResults(body) == ~body.haskey \/ Len(body.results) = 0

\* results["results"] on a dict without that key raises KeyError('results')
KeyErrorMsg == "'results'"

\* lines 64-81
TryBlock(out) ==
    IF out.kind = "raise" THEN ExceptClause(out.msg)
    ELSE IF NoResults(out.body)
         THEN Returned("No results found.")
    ELSE IF ~out.body.haskey
         THEN ExceptClause(KeyErrorMsg)
    ELSE IF \E i \in 1..Len(out.body.results) : ~out.body.results[i].isdict
         THEN ExceptClause(AttributeErrorMsg)
    ELSE Returned(Join([i \in 1..Len(out.body.results) |->
                           FormatEntry(out.body.results[i].fields)]))

NoReturn == [raised |-> FALSE, value |-> ""]

----------------------------------------------------------------------------
(* web_search, lines 52-81, one action per statement *)

\* a limiter that starts at the clock reading of the import
InitSearchStamped ==
    /\ now = StartTime
    /\ last_call_time = StartTime
    /\ pc = [f \in Flows |-> "idle"]
    /\ elapsed = [f \in Flows |-> 0]
    /\ slept = [f \in Flows |-> 0]
    /\ wake = [f \in Flows |-> 0]
    /\ checked = [f \in Flows |-> FALSE]
    /\ mystamp = [f \in Flows |-> -1]
    /\ outcome = [f \in Flows |-> NoOutcome]
    /\ ret = [f \in Flows |-> NoReturn]
    /\ nstamps = 0
    /\ last_start = 0
    /\ nstarts = 0
    /\ last_kind = "none"
    /\ ncalls = 0

InitSearch ==
    /\ now = StartTime
    /\ last_call_time = 0
    /\ pc = [f \in Flows |-> "idle"]
    /\ elapsed = [f \in Flows |-> 0]
    /\ slept = [f \in Flows |-> 0]
    /\ wake = [f \in Flows |-> 0]
    /\ checked = [f \in Flows |-> FALSE]
    /\ mystamp = [f \in Flows |-> -1]
    /\ outcome = [f \in Flows |-> NoOutcome]
    /\ ret = [f \in Flows |-> NoReturn]
    /\ nstamps = 0
    /\ last_start = 0
    /\ nstarts = 0
    /\ last_kind = "none"
    /\ ncalls = 0

\* the clock advances
Tick(limit) ==
    /\ now < limit
    /\ now' = now + 1
    /\ UNCHANGED <<last_call_time, pc, locals, outcome, ret, history, ncalls>>
    /\ UNCHANGED retryVars

\* the tool is invoked
Call(f, calls) ==
    /\ pc[f] = "idle"
    /\ ncalls < calls
    /\ ncalls' = ncalls + 1
    /\ pc' = [pc EXCEPT ![f] = "read"]
    /\ UNCHANGED <<now, last_call_time, locals, outcome, ret, history>>
    /\ UNCHANGED retryVars

\* line 58: elapsed = time.time() - last_call_time
ReadElapsed(f) ==
    /\ pc[f] = "read"
    /\ elapsed' = [elapsed EXCEPT ![f] = now - last_call_time]
    /\ pc' = [pc EXCEPT ![f] = "test"]
    /\ UNCHANGED <<now, last_call_time, slept, wake, checked, mystamp, outcome, ret,
                   history, ncalls>>
    /\ UNCHANGED retryVars

\* a wait that is one second short
SleepTimeShort(e) == MinInterval - e - 1

\* a wait of the whole interval whatever has elapsed
SleepTimeFull(e) == MinInterval

\* the argument of time.sleep, line 60
SleepTime(e) == MinInterval - e

\* line 59: if elapsed < 6
MustWait(e) == e < MinInterval

\* lines 59-60: if elapsed < 6: time.sleep(6 - elapsed)
Throttle(f) ==
    /\ pc[f] = "test"
    /\ checked' = [checked EXCEPT ![f] = TRUE]
    /\ IF MustWait(elapsed[f])
       THEN /\ slept' = [slept EXCEPT ![f] = SleepTime(elapsed[f])]
            /\ wake' = [wake EXCEPT ![f] = now + SleepTime(elapsed[f])]
            /\ pc' = [pc EXCEPT ![f] = "sleeping"]
       ELSE /\ pc' = [pc EXCEPT ![f] = "stamp"]
            /\ UNCHANGED <<slept, wake>>
    /\ UNCHANGED <<now, last_call_time, elapsed, mystamp, outcome, ret, history, ncalls>>
    /\ UNCHANGED retryVars

\* time.sleep returns: at least the requested time has passed
Wake(f) ==
    /\ pc[f] = "sleeping"
    /\ now >= wake[f]
    /\ pc' = [pc EXCEPT ![f] = "stamp"]
    /\ UNCHANGED <<now, last_call_time, locals, outcome, ret, history, ncalls>>
    /\ UNCHANGED retryVars

\* the timestamp of the moment before the wait, as if line 62 stood before line 59
StampBeforeWait(f) ==
    /\ pc[f] = "stamp"
    /\ last_call_time' = now - slept[f]
    /\ mystamp' = [mystamp EXCEPT ![f] = now - slept[f]]
    /\ nstamps' = nstamps + 1
    /\ pc' = [pc EXCEPT ![f] = "search"]
    /\ UNCHANGED <<now, elapsed, slept, wake, checked, outcome, ret, last_start,
                   nstarts, last_kind, ncalls>>
    /\ UNCHANGED retryVars

\* line 62: last_call_time = time.time()
Stamp(f) ==
    /\ pc[f] = "stamp"
    /\ last_call_time' = now
    /\ mystamp' = [mystamp EXCEPT ![f] = now]
    /\ nstamps' = nstamps + 1
    /\ pc' = [pc EXCEPT ![f] = "search"]
    /\ UNCHANGED <<now, elapsed, slept, wake, checked, outcome, ret, last_start,
                   nstarts, last_kind, ncalls>>
    /\ UNCHANGED retryVars

\* line 65: the provider call is issued
IssueSearch(f) ==
    /\ pc[f] = "search"
    /\ last_start' = now
    /\ nstarts' = nstarts + 1
    /\ pc' = [pc EXCEPT ![f] = "awaiting"]
    /\ UNCHANGED <<now, last_call_time, locals, outcome, ret, nstamps, last_kind, ncalls>>
    /\ UNCHANGED retryVars

\* lines 65-81: the awaited call raises or returns, and web_search returns
Respond(f, outs) ==
    /\ pc[f] = "awaiting"
    /\ \E out \in outs :
         /\ outcome' = [outcome EXCEPT ![f] = out]
         /\ ret' = [ret EXCEPT ![f] = TryBlock(out)]
    /\ pc' = [pc EXCEPT ![f] = "returned"]
    /\ UNCHANGED <<now, last_call_time, locals, history, ncalls>>
    /\ UNCHANGED retryVars

\* how the provider call of a web_search call ended: it raised (or its
\* response could not be formatted), it gave no results, or it gave results
OutcomeKind(out) ==
    IF out.kind = "raise" THEN "raise"
    ELSE IF NoResults(out.body) THEN "empty"
    ELSE IF \E i \in 1..Len(out.body.results) : ~out.body.results[i].isdict THEN "raise"
    ELSE "results"

\* a limiter that gives the slot back when the search brought nothing
ReturnFreesSlotOnFailure(f) ==
    /\ pc[f] = "returned"
    /\ pc' = [pc EXCEPT ![f] = "idle"]
    /\ elapsed' = [elapsed EXCEPT ![f] = 0]
    /\ slept' = [slept EXCEPT ![f] = 0]
    /\ wake' = [wake EXCEPT ![f] = 0]
    /\ checked' = [checked EXCEPT ![f] = FALSE]
    /\ mystamp' = [mystamp EXCEPT ![f] = -1]
    /\ outcome' = [outcome EXCEPT ![f] = NoOutcome]
    /\ ret' = [ret EXCEPT ![f] = NoReturn]
    /\ last_kind' = OutcomeKind(outcome[f])
    /\ last_call_time' = IF OutcomeKind(outcome[f]) = "results" THEN last_call_time ELSE 0
    /\ UNCHANGED <<now, nstamps, last_start, nstarts, ncalls>>
    /\ UNCHANGED retryVars

\* the caller takes the result; the locals of the call are gone
Return(f) ==
    /\ pc[f] = "returned"
    /\ pc' = [pc EXCEPT ![f] = "idle"]
    /\ elapsed' = [elapsed EXCEPT ![f] = 0]
    /\ slept' = [slept EXCEPT ![f] = 0]
    /\ wake' = [wake EXCEPT ![f] = 0]
    /\ checked' = [checked EXCEPT ![f] = FALSE]
    /\ mystamp' = [mystamp EXCEPT ![f] = -1]
    /\ outcome' = [outcome EXCEPT ![f] = NoOutcome]
    /\ ret' = [ret EXCEPT ![f] = NoReturn]
    /\ last_kind' = OutcomeKind(outcome[f])
    /\ UNCHANGED <<now, last_call_time, nstamps, last_start, nstarts, ncalls>>
    /\ UNCHANGED retryVars

web_search(f, outs, calls) ==
    \/ Call(f, calls)
    \/ ReadElapsed(f)
    \/ Throttle(f)
    \/ Wake(f)
    \/ Stamp(f)
    \/ IssueSearch(f)
    \/ Respond(f, outs)
    \/ Return(f)

----------------------------------------------------------------------------
(* Runner.run_sync as safe_run_sync sees it: it returns a result or raises *)

FinalOutputs == {"REPORT", "partial notes"}

ErrorMessages ==
    { "RESOURCE_EXHAUSTED: quota exceeded",
      "Error code: 429",
      "Invalid API key",
      "resource_exhausted (code 42.9)",
      "" }

Ok(v) == [kind |-> "ok", class |-> "", msg |-> "", value |-> v]

Err(c, m) == [kind |-> "error", class |-> c, msg |-> m, value |-> ""]

RunOutcomes ==
    { Ok(v) : v \in FinalOutputs }
    \cup { Err(c, m) : c \in {"RateLimitError", "Exception"}, m \in ErrorMessages }

NoRun == [kind |-> "none", class |-> "", msg |-> "", value |-> ""]

NoResult == [kind |-> "none", class |-> "", msg |-> "", value |-> ""]

\* Python's "sub in s" on strings
Contains(s, sub) ==
    \E i \in 1..(Len(s) - Len(sub) + 1) : SubSeq(s, i, i + Len(sub) - 1) = sub

\* a classification by the exception class alone
IsTransientClassOnly(e) == e.class = "RateLimitError"

\* lines 201 and 207: which except branch sleeps and retries
IsTransient(e) ==
    \/ e.class = "RateLimitError"
    \/ Contains(e.msg, "RESOURCE_EXHAUSTED")
    \/ Contains(e.msg, "429")

RECURSIVE Pow2(_)
Pow2(n) == IF n <= 0 THEN 1 ELSE 2 * Pow2(n - 1)

\* a backoff that counts attempts from 1
WaitTimeFromOne(b, a) == b * Pow2(a + 1)

\* lines 202 and 208: wait_time = base_delay * (2 ** attempt)
WaitTime(b, a) == b * Pow2(a)

\* a loop test that allows one attempt too many
LoopContinuesInclusive(a, m) == a <= m

\* a loop that always makes a first attempt
LoopContinuesAtLeastOnce(a, m) == a = 0 \/ a < m

\* line 198: while attempt < max_retries
LoopContinues(a, m) == a < m

\* the registered tools of the orchestrator, lines 170-177
OrchestratorTools ==
    { "current_date", "PlanningTool", "ReflectionTool", "WebSearchTool",
      "ReportWriterTool", "SynthesisTool" }

(* Program constants: the defaults of safe_run_sync, line 196 *)
DefaultMaxRetries == 5
DefaultBaseDelay == 5

RetryBudgets == -1..DefaultMaxRetries
BaseDelays == {1, DefaultBaseDelay}

InitRetryIdle ==
    /\ max_retries = DefaultMaxRetries
    /\ base_delay = DefaultBaseDelay
    /\ attempt = 0
    /\ rpc = "loop"
    /\ run_outcome = NoRun
    /\ result = NoResult
    /\ invoked = {}
    /\ invocations = 0
    /\ ntransient = 0
    /\ sleeps = <<>>

\* line 196-197: a call of safe_run_sync with some max_retries and base_delay
InitRetry ==
    /\ InitSearch
    /\ max_retries \in RetryBudgets
    /\ base_delay \in BaseDelays
    /\ attempt = 0
    /\ rpc = "loop"
    /\ run_outcome = NoRun
    /\ result = NoResult
    /\ invoked = {}
    /\ invocations = 0
    /\ ntransient = 0
    /\ sleeps = <<>>

\* line 198, and line 214 when the loop ends
LoopTest ==
    /\ rpc = "loop"
    /\ IF LoopContinues(attempt, max_retries)
       THEN /\ rpc' = "invoke"
            /\ UNCHANGED result
       ELSE /\ rpc' = "raised"
            /\ result' = [kind |-> "raised", class |-> "Exception",
                          msg |-> "Too many retries, giving up.", value |-> ""]
    /\ UNCHANGED <<max_retries, base_delay, attempt, run_outcome, invoked,
                   invocations, ntransient, sleeps>>
    /\ UNCHANGED searchVars

\* line 200: Runner.run_sync(agent, prompt, max_turns=max_turns) is called
Invoke ==
    /\ rpc = "invoke"
    /\ rpc' = "running"
    /\ invocations' = invocations + 1
    /\ invoked' = {}
    /\ UNCHANGED <<max_retries, base_delay, attempt, run_outcome, result,
                   ntransient, sleeps>>
    /\ UNCHANGED searchVars

\* lines 170-177: during the run the model picks any registered tool
ToolCall(t) ==
    /\ rpc = "running"
    /\ invoked' = invoked \cup {t}
    /\ UNCHANGED <<max_retries, base_delay, attempt, rpc, run_outcome, result,
                   invocations, ntransient, sleeps>>
    /\ UNCHANGED searchVars

\* line 200: the run returns (and safe_run_sync returns its result) or raises
RunEnds(out) ==
    /\ rpc = "running"
    /\ run_outcome' = out
    /\ invoked' = {}
    /\ IF out.kind = "ok"
       THEN /\ rpc' = "returned"
            /\ result' = [kind |-> "returned", class |-> "", msg |-> "", value |-> out.value]
            /\ UNCHANGED ntransient
       ELSE /\ rpc' = "except"
            /\ ntransient' = IF IsTransient(out) THEN ntransient + 1 ELSE ntransient
            /\ UNCHANGED result
    /\ UNCHANGED <<max_retries, base_delay, attempt, invocations, sleeps>>
    /\ UNCHANGED searchVars

\* a handler that does not sleep when no attempt is left
BackoffUnlessLast ==
    /\ rpc = "except"
    /\ IsTransient(run_outcome)
    /\ sleeps' = IF attempt + 1 < max_retries
                 THEN Append(sleeps, WaitTime(base_delay, attempt))
                 ELSE sleeps
    /\ rpc' = "slept"
    /\ UNCHANGED <<max_retries, base_delay, attempt, run_outcome, result, invoked,
                   invocations, ntransient>>
    /\ UNCHANGED searchVars

\* lines 201-204 and 207-210: the backoff sleep
Backoff ==
    /\ rpc = "except"
    /\ IsTransient(run_outcome)
    /\ sleeps' = Append(sleeps, WaitTime(base_delay, attempt))
    /\ rpc' = "slept"
    /\ UNCHANGED <<max_retries, base_delay, attempt, run_outcome, result, invoked,
                   invocations, ntransient>>
    /\ UNCHANGED searchVars

\* lines 205 and 211: attempt += 1
Increment ==
    /\ rpc = "slept"
    /\ attempt' = attempt + 1
    /\ rpc' = "loop"
    /\ UNCHANGED <<max_retries, base_delay, run_outcome, result, invoked,
                   invocations, ntransient, sleeps>>
    /\ UNCHANGED searchVars

\* a handler that retries whatever the error
RetryAnyway ==
    /\ rpc = "except"
    /\ ~IsTransient(run_outcome)
    /\ sleeps' = Append(sleeps, WaitTime(base_delay, attempt))
    /\ rpc' = "slept"
    /\ UNCHANGED <<max_retries, base_delay, attempt, run_outcome, result, invoked,
                   invocations, ntransient>>
    /\ UNCHANGED searchVars

\* lines 212-213: else: raise
Reraise ==
    /\ rpc = "except"
    /\ ~IsTransient(run_outcome)
    /\ rpc' = "raised"
    /\ result' = [kind |-> "raised", class |-> run_outcome.class,
                  msg |-> run_outcome.msg, value |-> ""]
    /\ UNCHANGED <<max_retries, base_delay, attempt, run_outcome, invoked,
                   invocations, ntransient, sleeps>>
    /\ UNCHANGED searchVars

safe_run_sync ==
    \/ LoopTest
    \/ Invoke
    \/ \E t \in OrchestratorTools : ToolCall(t)
    \/ \E out \in RunOutcomes : RunEnds(out)
    \/ Backoff
    \/ Increment
    \/ Reraise

NextRetry == safe_run_sync

SpecRetry == InitRetry /\ [][NextRetry]_vars

Init == InitSearch /\ InitRetryIdle

\* One flow: the calls follow one another
Next == Tick(MaxTime) \/ web_search(MainFlow, ProviderOutcomes, MaxCalls)

Spec == Init /\ [][Next]_vars

\* Threads sharing the module: the statements of different calls interleave
NextThreads ==
    \/ Tick(StartTime + ThreadHorizon)
    \/ \E f \in Flows : web_search(f, ThreadOutcomes, ThreadCalls)

SpecThreads == Init /\ [][NextThreads]_vars

\* Coroutines on one event loop: lines 57-62 hold no await and time.sleep
\* blocks the loop, so a call runs alone from its entry to the await of line 65
InSyncSection(g) == pc[g] \in {"read", "test", "sleeping", "stamp", "search"}

NextCoroutines ==
    \/ Tick(StartTime + ThreadHorizon)
    \/ \E f \in Flows :
         /\ \A g \in Flows \ {f} : ~InSyncSection(g)
         /\ web_search(f, ThreadOutcomes, ThreadCalls)

SpecCoroutines == Init /\ [][NextCoroutines]_vars

----------------------------------------------------------------------------
(* Claims about web_search *)

\* C1: in a single flow, the values two consecutive web_search calls assign to
\* last_call_time differ by at least 6 seconds, whatever the arrival times of
\* the calls and whatever the provider did.
C1_ConsecutiveStampsApart ==
    [][(nstamps' = nstamps + 1 /\ nstamps >= 1)
          => last_call_time' - last_call_time >= 6]_vars

\* a second call that had to wait has passed the throttle
C1_Witness ==
    /\ nstamps >= 2
    /\ slept[MainFlow] > 0
    /\ pc[MainFlow] = "returned"
    /\ outcome[MainFlow].kind = "raise"

Abs(x) == IF x < 0 THEN -x ELSE x

\* C2: with concurrent flows sharing last_call_time, no two calls pass the
\* throttle within the same 6-second window.
C2_NoTwoPassWithinInterval ==
    \A f, g \in Flows :
        (f # g /\ mystamp[f] >= 0 /\ mystamp[g] >= 0)
            => Abs(mystamp[f] - mystamp[g]) >= 6

\* C3: whatever exception the provider call or the formatting raises, with
\* message m, web_search returns "WebSearchTool failed: " followed by m and
\* raises nothing.
FormattingRaises(out) ==
    /\ out.kind = "response"
    /\ out.body.haskey
    /\ \E i \in 1..Len(out.body.results) : ~out.body.results[i].isdict

C3_FailureIsContent ==
    \A f \in Flows :
        pc[f] = "returned" =>
            /\ ret[f].raised = FALSE
            /\ outcome[f].kind = "raise"
                  => ret[f].value = "WebSearchTool failed: " \o outcome[f].msg
            /\ FormattingRaises(outcome[f])
                  => ret[f].value = "WebSearchTool failed: 'str' object has no attribute 'get'"

\* the provider raised "boom"
C3_Witness ==
    /\ pc[MainFlow] = "returned"
    /\ outcome[MainFlow] = Raises("boom")
    /\ ret[MainFlow].value = "WebSearchTool failed: boom"

\* C10: every provider call is issued by a web_search call that has run the
\* throttle test, has finished its wait, and has then set last_call_time to
\* the clock reading of that moment, as its last statement before the call.
C10_StampedAfterWait ==
    /\ [](\A f \in Flows :
            pc[f] \in {"awaiting", "returned"} =>
                /\ checked[f]
                /\ mystamp[f] >= 0
                /\ last_call_time = mystamp[f]
                /\ slept[f] > 0 => mystamp[f] >= wake[f])
    /\ [][\A f \in Flows :
            /\ (pc[f] # "search" /\ pc'[f] = "search")
                  => /\ pc[f] = "stamp"
                     /\ last_call_time' = now
                     /\ mystamp'[f] = now
            /\ (pc[f] # "awaiting" /\ pc'[f] = "awaiting") => pc[f] = "search"]_vars

\* a provider call has been issued after a wait
C10_Witness ==
    /\ pc[MainFlow] = "awaiting"
    /\ slept[MainFlow] > 0
    /\ nstamps >= 2

----------------------------------------------------------------------------
(* Claims about safe_run_sync and the orchestrator *)

RetryDone == rpc \in {"returned", "raised"}

\* C4: when the first k invocations fail transiently (k < max_retries) and the
\* next one succeeds, safe_run_sync returns that success result after exactly
\* k+1 invocations and k sleeps, the i-th sleep (from 0) lasting
\* base_delay * 2^i, and nothing is invoked or slept after the success.
C4_SuccessAfterBackoff ==
    /\ [](rpc = "returned" =>
            /\ run_outcome.kind = "ok"
            /\ result.kind = "returned"
            /\ result.value = run_outcome.value
            /\ ntransient \in 0..(max_retries - 1)
            /\ invocations = ntransient + 1
            /\ Len(sleeps) = ntransient
            /\ \A i \in 0..(ntransient - 1) : sleeps[i + 1] = base_delay * (2 ^ i))
    /\ [][rpc = "returned" => UNCHANGED <<invocations, sleeps, result>>]_vars

\* two transient failures, then success, with the default base delay
C4_Witness ==
    /\ rpc = "returned"
    /\ ntransient = 2
    /\ base_delay = 5
    /\ sleeps = <<5, 10>>
    /\ result.value = "REPORT"

\* C5: with max_retries >= 1 and every invocation failing transiently, exactly
\* max_retries invocations are made, then the call fails with "Too many
\* retries, giving up.", invokes nothing more and returns no result.
C5_RetryExhaustion ==
    /\ [](max_retries >= 1 =>
            /\ invocations <= max_retries
            /\ (RetryDone /\ ntransient = invocations) =>
                  /\ invocations = max_retries
                  /\ rpc = "raised"
                  /\ result.kind = "raised"
                  /\ result.msg = "Too many retries, giving up."
                  /\ result.value = "")
    /\ [][(max_retries >= 1 /\ ntransient = max_retries)
             => invocations' = invocations]_vars

\* five invocations, all failed transiently, and the call has given up
C5_Witness ==
    /\ max_retries = 5
    /\ rpc = "raised"
    /\ ntransient = 5
    /\ invocations = 5
    /\ result.msg = "Too many retries, giving up."

C6_NonTransient(e) ==
    /\ e.kind = "error"
    /\ e.class # "RateLimitError"
    /\ ~Contains(e.msg, "RESOURCE_EXHAUSTED")
    /\ ~Contains(e.msg, "429")

\* C6: a non-transient error of an invocation, on any attempt, is re-raised as
\* that same error at once: no sleep follows, attempt is not incremented and
\* nothing more is invoked; on the first attempt exactly 1 invocation is made.
C6_FatalErrorPropagates ==
    /\ [][(rpc = "except" /\ C6_NonTransient(run_outcome)) =>
             /\ rpc' = "raised"
             /\ result'.kind = "raised"
             /\ result'.class = run_outcome.class
             /\ result'.msg = run_outcome.msg
             /\ UNCHANGED <<attempt, sleeps, invocations>>]_vars
    /\ [][(rpc = "raised" /\ C6_NonTransient(run_outcome)) =>
             UNCHANGED <<attempt, sleeps, invocations, result>>]_vars
    /\ []((rpc = "raised" /\ C6_NonTransient(run_outcome)) =>
             /\ attempt = ntransient
             /\ Len(sleeps) = ntransient
             /\ invocations = ntransient + 1
             /\ ntransient = 0 => invocations = 1)

\* a fatal error after one transient failure has reached the caller
C6_Witness ==
    /\ rpc = "raised"
    /\ run_outcome = Err("Exception", "Invalid API key")
    /\ result.msg = "Invalid API key"
    /\ ntransient = 1
    /\ invocations = 2

\* the same on the first attempt
C6_WitnessFirst ==
    /\ rpc = "raised"
    /\ run_outcome = Err("Exception", "Invalid API key")
    /\ invocations = 1

\* C9: in every run, whatever tools the model picks, ReportWriterTool is
\* invoked only after SynthesisTool has been invoked earlier in the same run.
C9_ReportOnlyAfterSynthesis ==
    (rpc = "running" /\ "ReportWriterTool" \in invoked) => "SynthesisTool" \in invoked

----------------------------------------------------------------------------
(* Claims about the text web_search returns *)

\* C11: for a response with an empty "results" list, or with no "results"
\* key, web_search returns exactly "No results found." and never "".
C11_NoResultsText ==
    \A f \in Flows :
        (/\ pc[f] = "returned"
         /\ outcome[f].kind = "response"
         /\ (~outcome[f].body.haskey \/ outcome[f].body.results = <<>>))
            => /\ ret[f].raised = FALSE
               /\ ret[f].value = "No results found."
               /\ ret[f].value # ""

\* the provider answered without a "results" key
C11_Witness ==
    /\ pc[MainFlow] = "returned"
    /\ outcome[MainFlow] = Responds([haskey |-> FALSE, results |-> <<>>])
    /\ ret[MainFlow].value = "No results found."

C12_AllDicts(out) ==
    /\ out.kind = "response"
    /\ out.body.haskey
    /\ Len(out.body.results) >= 1
    /\ \A i \in 1..Len(out.body.results) : out.body.results[i].isdict

C12_Field(d, key, placeholder) == IF key \in DOMAIN d THEN d[key] ELSE placeholder

C12_Present(d, key) == key \in DOMAIN d /\ d[key] # ""

\* the line the claim describes: a missing snippet becomes the placeholder
C12_ClaimedLine(d) ==
    "- " \o C12_Field(d, "title", "No Title")
         \o " (" \o C12_Field(d, "url", "No URL") \o "): "
         \o C12_Field(d, "snippet", "No snippet available")

\* the line with the snippet taken from "snippet", else from "content"
C12_AmendedLine(d) ==
    "- " \o C12_Field(d, "title", "No Title")
         \o " (" \o C12_Field(d, "url", "No URL") \o "): "
         \o (IF C12_Present(d, "snippet") THEN d["snippet"]
             ELSE IF C12_Present(d, "content") THEN d["content"]
             ELSE "No snippet available")

\* lines 1..n of a list, each but the last followed by a newline
RECURSIVE C12_Text(_, _)
C12_Text(lines, n) ==
    IF n = 0 THEN ""
    ELSE IF n = 1 THEN lines[1]
    ELSE C12_Text(lines, n - 1) \o "\n" \o lines[n]

\* C12 as stated: n >= 1 entries give n lines "- {title} ({url}): {snippet}"
\* in the provider's order, each missing title, url or snippet replaced by
\* "No Title", "No URL", "No snippet available".
C12_PlaceholderPerMissingField ==
    \A f \in Flows :
        (pc[f] = "returned" /\ C12_AllDicts(outcome[f])) =>
            LET rs == outcome[f].body.results
            IN ret[f].value =
                 C12_Text([i \in 1..Len(rs) |-> C12_ClaimedLine(rs[i].fields)], Len(rs))

\* C12 amended: the same, with the snippet being the entry's non-empty
\* "snippet", else its non-empty "content", else "No snippet available".
C12_SnippetOrContent ==
    \A f \in Flows :
        (pc[f] = "returned" /\ C12_AllDicts(outcome[f])) =>
            LET rs == outcome[f].body.results
            IN /\ ret[f].raised = FALSE
               /\ ret[f].value =
                    C12_Text([i \in 1..Len(rs) |-> C12_AmendedLine(rs[i].fields)], Len(rs))

\* two entries, the first with its text under "content", the second with
\* neither url nor snippet
C12_Witness ==
    /\ pc[MainFlow] = "returned"
    /\ outcome[MainFlow] =
         Responds([haskey |-> TRUE,
                   results |-> <<Dict([title |-> "T2", url |-> "U2", content |-> "C2"]),
                                 Dict([title |-> "T4"])>>])
    /\ ret[MainFlow].value = "- T2 (U2): C2\n- T4 (No URL): No snippet available"

----------------------------------------------------------------------------
(* More claims about safe_run_sync *)

C13_Marked(e) ==
    \/ e.class = "RateLimitError"
    \/ Contains(e.msg, "RESOURCE_EXHAUSTED")
    \/ Contains(e.msg, "429")

\* C13: a failed invocation leads to a sleep and a new pass of the loop if
\* and only if the error is a RateLimitError or its message contains
\* "RESOURCE_EXHAUSTED" or "429"; any other error is raised, with no sleep.
C13_TransientIffMarked ==
    /\ [][rpc = "except" =>
            IF C13_Marked(run_outcome)
            THEN /\ rpc' = "slept"
                 /\ Len(sleeps') = Len(sleeps) + 1
                 /\ result' = result
            ELSE /\ rpc' = "raised"
                 /\ sleeps' = sleeps
                 /\ result'.kind = "raised"
                 /\ result'.msg = run_outcome.msg]_vars
    /\ [][rpc = "slept" => (rpc' = "loop" /\ attempt' = attempt + 1)]_vars

\* an Exception that is no RateLimitError but carries "429" has been slept on
C13_Witness ==
    /\ rpc = "slept"
    /\ run_outcome = Err("Exception", "Error code: 429")
    /\ Len(sleeps) = 1

RECURSIVE C16_Sum(_)
C16_Sum(q) == IF q = <<>> THEN 0 ELSE Head(q) + C16_Sum(Tail(q))

C16_Exhausted ==
    /\ rpc = "raised"
    /\ result.kind = "raised"
    /\ result.msg = "Too many retries, giving up."

\* C16: every transient failure is followed by a backoff sleep, the failure
\* of the last permitted attempt included: on exhaustion max_retries sleeps
\* have occurred, totalling base_delay * (2^max_retries - 1), and after the
\* last of them nothing is invoked.
C16_SleepAfterEveryFailure ==
    /\ [](rpc # "except" => Len(sleeps) = ntransient)
    /\ []((C16_Exhausted /\ max_retries >= 0) =>
             /\ Len(sleeps) = max_retries
             /\ C16_Sum(sleeps) = base_delay * ((2 ^ max_retries) - 1))
    /\ [][(max_retries >= 1 /\ Len(sleeps) = max_retries)
             => (invocations' = invocations /\ sleeps' = sleeps)]_vars

\* the default call has given up: five sleeps, 5 + 10 + 20 + 40 + 80 seconds
C16_Witness ==
    /\ C16_Exhausted
    /\ max_retries = 5
    /\ base_delay = 5
    /\ sleeps = <<5, 10, 20, 40, 80>>
    /\ invocations = 5

C17_Budget == IF max_retries > 0 THEN max_retries ELSE 0

\* C17: with max_retries <= 0 nothing is invoked, nothing is slept and the
\* call fails at once with "Too many retries, giving up."; for every
\* max_retries, attempt stays in 0..max(max_retries, 0) and the number of
\* invocations never exceeds max(max_retries, 0).
C17_BudgetRespected ==
    /\ [](/\ attempt \in 0..C17_Budget
          /\ invocations <= C17_Budget)
    /\ [](max_retries <= 0 =>
             /\ invocations = 0
             /\ sleeps = <<>>
             /\ rpc \in {"loop", "raised"}
             /\ rpc = "raised" => C16_Exhausted)
    /\ [][(max_retries <= 0 /\ rpc = "loop") =>
             (rpc' = "raised" /\ result'.msg = "Too many retries, giving up.")]_vars

\* a call with max_retries = 0 has failed without an invocation
C17_Witness ==
    /\ max_retries = 0
    /\ C16_Exhausted
    /\ invocations = 0
    /\ sleeps = <<>>

----------------------------------------------------------------------------
(* The whole script: the top-level call of safe_run_sync (or a call of
   throttled_run_sync), the web_search calls made while Runner.run_sync runs,
   and the saving of the report.  The clock is advanced by Tick alone; the
   sleeps of the wrappers are recorded in sleeps. *)

ThrottlePause == 7

ProgramRuns ==
    { Ok("REPORT"), Err("RateLimitError", "Error code: 429"), Err("Exception", "Invalid API key") }

\* lines 219-223 call safe_run_sync with the default max_retries and
\* base_delay; throttled_run_sync is defined for the same use
InitProgram ==
    /\ InitSearch
    /\ max_retries = DefaultMaxRetries
    /\ base_delay = DefaultBaseDelay
    /\ attempt = 0
    /\ rpc \in {"loop", "throttle"}
    /\ run_outcome = NoRun
    /\ result = NoResult
    /\ invoked = {}
    /\ invocations = 0
    /\ ntransient = 0
    /\ sleeps = <<>>

\* a pause that also counts as a search for the limiter
ThrottledPauseStamps ==
    /\ rpc = "throttle"
    /\ sleeps' = Append(sleeps, ThrottlePause)
    /\ rpc' = "trunning"
    /\ invocations' = invocations + 1
    /\ last_call_time' = now
    /\ UNCHANGED <<max_retries, base_delay, attempt, run_outcome, result, invoked,
                   ntransient>>
    /\ UNCHANGED <<now, pc, locals, outcome, ret, history, ncalls>>

\* lines 187-188: time.sleep(7), then Runner.run_sync(agent, prompt) is called
ThrottledPause ==
    /\ rpc = "throttle"
    /\ sleeps' = Append(sleeps, ThrottlePause)
    /\ rpc' = "trunning"
    /\ invocations' = invocations + 1
    /\ UNCHANGED <<max_retries, base_delay, attempt, run_outcome, result, invoked,
                   ntransient>>
    /\ UNCHANGED searchVars

\* line 188: the run returns its result or its exception leaves the function
ThrottledRunEnds(out) ==
    /\ rpc = "trunning"
    /\ pc[MainFlow] = "idle"
    /\ run_outcome' = out
    /\ IF out.kind = "ok"
       THEN /\ rpc' = "returned"
            /\ result' = [kind |-> "returned", class |-> "", msg |-> "", value |-> out.value]
       ELSE /\ rpc' = "raised"
            /\ result' = [kind |-> "raised", class |-> out.class, msg |-> out.msg, value |-> ""]
    /\ UNCHANGED <<max_retries, base_delay, attempt, invoked, invocations,
                   ntransient, sleeps>>
    /\ UNCHANGED searchVars

throttled_run_sync ==
    \/ ThrottledPause
    \/ \E out \in ProgramRuns : ThrottledRunEnds(out)

\* lines 87-89: the tool reads the system date and returns it as text
current_date == ToolCall("current_date")

\* lines 170-177 and 51: the run calls the search tool; the run does not end
\* while a tool call is under way
ToolSearch ==
    /\ rpc \in {"running", "trunning"}
    /\ web_search(MainFlow, ThreadOutcomes, ThreadCalls)

ProgramRunEnds(out) ==
    /\ pc[MainFlow] = "idle"
    /\ RunEnds(out)

\* lines 225-237: the final output is printed and written to the report file
SaveReport ==
    /\ rpc = "returned"
    /\ rpc' = "saved"
    /\ UNCHANGED <<max_retries, base_delay, attempt, run_outcome, result, invoked,
                   invocations, ntransient, sleeps>>
    /\ UNCHANGED searchVars

NextProgram ==
    \/ Tick(StartTime + ThreadHorizon)
    \/ ToolSearch
    \/ current_date
    \/ LoopTest
    \/ Invoke
    \/ \E out \in ProgramRuns : ProgramRunEnds(out)
    \/ Backoff
    \/ Increment
    \/ Reraise
    \/ throttled_run_sync
    \/ SaveReport

SpecProgram == InitProgram /\ [][NextProgram]_vars

----------------------------------------------------------------------------
(* More claims about the throttle of web_search *)

\* C15: when less than 6 seconds have elapsed since last_call_time the call
\* sleeps for exactly 6 - elapsed seconds before it goes on (time.sleep is
\* asked for that time and does not return before it has passed); when 6
\* seconds or more have elapsed the call goes on with no wait at all.
C15_ExactWait ==
    /\ [](\A f \in Flows :
            /\ pc[f] = "sleeping" =>
                  /\ elapsed[f] < 6
                  /\ slept[f] = 6 - elapsed[f]
            /\ (checked[f] /\ elapsed[f] >= 6) =>
                  /\ slept[f] = 0
                  /\ pc[f] # "sleeping")
    /\ [][\A f \in Flows :
            /\ (pc[f] = "test" /\ pc'[f] # "test") =>
                  IF elapsed[f] < 6
                  THEN /\ pc'[f] = "sleeping"
                       /\ wake'[f] = now + (6 - elapsed[f])
                  ELSE pc'[f] = "stamp"
            /\ (pc[f] = "sleeping" /\ pc'[f] # "sleeping") =>
                  /\ pc'[f] = "stamp"
                  /\ now >= wake[f]]_vars

\* a call that arrived 2 seconds after the previous stamp sleeps 4 seconds
C15_Witness ==
    /\ pc[MainFlow] = "sleeping"
    /\ elapsed[MainFlow] = 2
    /\ slept[MainFlow] = 4

\* a call that arrived exactly 6 seconds after the previous stamp goes on
C15_WitnessNoWait ==
    /\ pc[MainFlow] = "stamp"
    /\ nstamps >= 1
    /\ elapsed[MainFlow] = 6
    /\ slept[MainFlow] = 0

C18_Failed(out) ==
    \/ out.kind = "raise"
    \/ out.kind = "response" /\ (~out.body.haskey \/ out.body.results = <<>>)

\* C18: a call whose provider call raised or returned no results has set
\* last_call_time before that provider call all the same, and the next call
\* is held until 6 seconds after the failed call's stamp, as after a success.
C18_FailureConsumesSlot ==
    /\ [](\A f \in Flows :
            (pc[f] = "returned" /\ C18_Failed(outcome[f])) =>
                /\ mystamp[f] >= 0
                /\ last_call_time = mystamp[f]
                /\ mystamp[f] <= last_start)
    /\ [][\A f \in Flows :
            (pc[f] = "returned" /\ pc'[f] = "idle") => last_call_time' = last_call_time]_vars
    /\ [][(nstamps' = nstamps + 1 /\ last_kind \in {"raise", "empty", "results"})
             => last_call_time' >= last_call_time + 6]_vars

\* the call after one whose provider call raised has had to wait
C18_Witness ==
    /\ last_kind = "raise"
    /\ nstamps = 2
    /\ pc[MainFlow] = "search"
    /\ slept[MainFlow] > 0
    /\ mystamp[MainFlow] = last_call_time

\* the same after a call that found nothing
C18_WitnessEmpty ==
    /\ last_kind = "empty"
    /\ nstamps = 2
    /\ pc[MainFlow] = "search"
    /\ slept[MainFlow] > 0

\* C19: the clock being non-decreasing, last_call_time never decreases, and
\* the first web_search call of the process (last_call_time still 0) reaches
\* the provider call without a throttle wait.
C19_MonotoneAndFirstCallFree ==
    /\ [][last_call_time' >= last_call_time]_vars
    /\ [](\A f \in Flows :
            (ncalls = 1 /\ pc[f] # "idle") =>
                /\ slept[f] = 0
                /\ pc[f] # "sleeping"
                /\ checked[f] => elapsed[f] >= 6)

\* the first call has issued its provider call without having slept
C19_Witness ==
    /\ ncalls = 1
    /\ pc[MainFlow] = "awaiting"
    /\ slept[MainFlow] = 0
    /\ last_call_time = mystamp[MainFlow]
    /\ last_call_time >= StartTime

\* the part of the state that belongs to calls of web_search
C14_SearchState == <<last_call_time, pc, locals, outcome, ret, history, ncalls>>

\* C14: last_call_time is written only by web_search (by its line 62, with
\* the clock reading); the steps of safe_run_sync, throttled_run_sync,
\* current_date and the report saving leave it unchanged, and no step
\* changes both the state of safe_run_sync and the state of web_search.
C14_OnlyWebSearchWrites ==
    [][ /\ (last_call_time' # last_call_time) =>
              \E f \in Flows : /\ pc[f] = "stamp"
                               /\ pc'[f] = "search"
                               /\ last_call_time' = now
        /\ (retryVars' # retryVars) => (C14_SearchState' = C14_SearchState)
        /\ (C14_SearchState' # C14_SearchState) => (retryVars' = retryVars) ]_vars

\* the report is saved after a backoff and a search; the limiter holds the
\* stamp of the search
C14_Witness ==
    /\ rpc = "saved"
    /\ attempt >= 1
    /\ sleeps # <<>>
    /\ nstamps >= 1
    /\ last_call_time >= StartTime

\* a run under throttled_run_sync has searched and returned
C14_WitnessThrottled ==
    /\ rpc = "returned"
    /\ sleeps = <<ThrottlePause>>
    /\ nstamps >= 1
    /\ last_call_time >= StartTime

====
